---- MODULE Spec2Model ----
(***************************************************************************)
(* Cafe service core of Bloom & Brew: the customer lifecycle, the waiting  *)
(* queue and seat matching, the order pipeline and the queueing model      *)
(* inputs (src/src/js/systems/management.js, class Customer and class      *)
(* CafeSystem), driven by the game loop of src/src/js/core/game.js.        *)
(*                                                                         *)
(* Time.  gameTime is the engine's clock in the engine's own units; the    *)
(* cafe code divides differences of it by 60 to get "minutes".  Ticks      *)
(* advance it by whole minutes (multiples of 60 units), so every quotient  *)
(* the code forms is exact.                                                *)
(* Satisfaction is kept in half points (0..200 stands for 0..100), so the  *)
(* penalty 5 * (wait - 1.5 * prepTime) stays an integer.                   *)
(* The cleaning timer of seatCustomer is a wall-clock setTimeout: it is    *)
(* modelled by a countdown in steps of 3000 ms of wall-clock time that     *)
(* WallTick advances and a callback TimerFire that runs once it is over.   *)
(* The cafe is built with 4 tables and 2 servers; the model draws the      *)
(* table count at construction and bounds the server count, so that seats  *)
(* and servers are contended with few customers.                           *)
(* Random draws (customer type, patience factor, ordered item, the 5%      *)
(* spawn of update) and the length of a tick are inputs drawn from the     *)
(* input sets below; customers arrive during the first minute of a run.    *)
(* A customer spliced out of this.customers is referenced by nothing any   *)
(* more (its order object stays in this.orders): the model keeps only its  *)
(* final state.                                                            *)
(* The queueing model (src/unnamed/part_000, imported by management.js as  *)
(* algorithms/queuing-theory.js) computes with JavaScript numbers.  The    *)
(* model computes with exact fractions n/d extended by the IEEE specials:  *)
(* 1/0 is Infinity, -1/0 is -Infinity and 0/0 is NaN, with the IEEE rules  *)
(* for them (x/0, Infinity * 0, comparisons with NaN are false).  Rounding *)
(* and the sign of zero are not modelled.  The constructor computes the    *)
(* derived fields of a QueueingModel from its three arguments and nothing  *)
(* assigns them again: the variable queueModel keeps the three arguments   *)
(* and Constructed(queueModel) is the object with its derived fields.      *)
(***************************************************************************)
EXTENDS Integers, Sequences, FiniteSets, TLC

\* ---------------------------------------------------------------- bounds
MaxCustomers == 3      \* customers spawned in one run
MaxMinutes == 17       \* simulated minutes after the start of the day
LiveMinutes == 33      \* the same, for the runs that follow every customer to its end
AvailableServers == 1  \* this.availableServers; the cafe is built with 2
MaxServers == 4        \* server counts of the queueing models constructed
SearchLimit == 6       \* server counts the optimizer's upward search may reach
SearchCap == 173       \* server counts the search followed step by step may reach
ExactLimit == 5        \* server counts up to which that search computes in fractions

\* ----------------------------------------------------------- input sets
TickMinutes == {1, 2}      \* length of one tick, in minutes
TableCounts == {1, 2}      \* initializeTables(count): the counts drawn
TypeIds == {1, 2}          \* customer types drawn: student and business
PatienceFactors == {80}    \* 100 * (0.8 + Math.random() * 0.4): values drawn
TipMultiplierFactors == {100}  \* 100 * (0.9 + Math.random() * 0.2): values drawn
Quantities == {1}          \* 1 + Math.floor(Math.random() * 3): values drawn
TipPercents == {15}        \* 100 * (0.1 + Math.random() * 0.1): values drawn
\* arguments and draws of the Customer constructor called on its own: the
\* keys of CUSTOMER_TYPES are 1..4 in key order, 0 and 5 stand for keys the
\* object does not have ('vip', undefined) and 6 for a key it inherits from
\* Object.prototype ('constructor', 'toString')
CategoryKeys == 0..6
InheritedKeys == {6}
SpreadFactors == {80, 100, 115}   \* 100 * (0.8 + Math.random() * 0.4)
TipFactors == {90, 105}           \* 100 * (0.9 + Math.random() * 0.2)
SpecialDraws == {12, 50}          \* 100 * Math.random()
\* arrival rates, service rates and target waits given to the queueing
\* model, as fractions: customers per minute, and minutes
ArrivalRates == { [n |-> 1, d |-> 10], [n |-> 3, d |-> 10], [n |-> 1, d |-> 2],
                  [n |-> 3, d |-> 5], [n |-> 9, d |-> 10] }
ServiceRates == { [n |-> 3, d |-> 10], [n |-> 3, d |-> 5] }
TargetWaits == { [n |-> 1, d |-> 1], [n |-> 8, d |-> 1] }

\* ------------------------------------------------------ program constants
StartTime == 360           \* GameEngine.gameTime at construction
MinuteUnits == 60          \* the divisor of "(gameTime - t) / 60"
EatMinutes == 10           \* "10 * 60": dwell in eating
PayMinutes == 1            \* "1 * 60": dwell in paying
CleaningDelay == 1         \* setTimeout(..., 3000), in steps of 3000 ms
SpawnCap == 10             \* "this.customers.length < 10"
FullSatisfaction == 200    \* satisfaction = 100, in half points

MaxTime == StartTime + MaxMinutes * MinuteUnits
\* customers arrive during the first minute of the run
SpawnDeadline == StartTime + MinuteUnits

\* MENU_ITEMS: price in cents and prepTime in minutes
MENU_ITEMS ==
  [coffee |-> [price |-> 350, prepTime |-> 2],
   espresso |-> [price |-> 250, prepTime |-> 3],
   tea |-> [price |-> 300, prepTime |-> 2],
   latte |-> [price |-> 450, prepTime |-> 4],
   cappuccino |-> [price |-> 400, prepTime |-> 4],
   croissant |-> [price |-> 250, prepTime |-> 1],
   muffin |-> [price |-> 300, prepTime |-> 1],
   sandwich |-> [price |-> 700, prepTime |-> 5],
   salad |-> [price |-> 800, prepTime |-> 4],
   cake |-> [price |-> 500, prepTime |-> 1],
   special |-> [price |-> 1000, prepTime |-> 8]]

\* CUSTOMER_TYPES, in key order; tipMultiplier is in tenths and
\* specialRequests in percent.
CUSTOMER_TYPES ==
  << [name |-> "student",  basePatience |-> 10,
      baseSpend |-> 8, tipMultiplier |-> 10, specialRequests |-> 10,
      orderPreferences |-> << "coffee", "croissant", "muffin" >>],
     [name |-> "business", basePatience |-> 8,
      baseSpend |-> 12, tipMultiplier |-> 15, specialRequests |-> 20,
      orderPreferences |-> << "espresso", "sandwich", "salad" >>],
     [name |-> "tourist",  basePatience |-> 15,
      baseSpend |-> 15, tipMultiplier |-> 20, specialRequests |-> 30,
      orderPreferences |-> << "cake", "tea", "special" >>],
     [name |-> "regular",  basePatience |-> 12,
      baseSpend |-> 10, tipMultiplier |-> 18, specialRequests |-> 15,
      orderPreferences |-> << "coffee", "muffin", "special" >>] >>

Ids == 1..MaxCustomers
NoTimer == -1

VARIABLES gameTime, isPaused, availableServers, isPanelOpen, customers, queue, orders,
          cust, ord, tables, timers, nextId, emitted, queueModel, returned, optimizer,
          constructed, playerStats

vars == << gameTime, isPaused, availableServers, isPanelOpen, customers, queue, orders,
           cust, ord, tables, timers, nextId, emitted, queueModel, returned, optimizer,
           constructed, playerStats >>

\* ------------------------------------------------------------- helpers
Max(a, b) == IF a > b THEN a ELSE b
Min(a, b) == IF a < b THEN a ELSE b

\* removal by moving the last element into the place of the removed one
Filter_SwapLast(q, x) ==
  IF ~\E i \in 1..Len(q) : q[i] = x THEN q
  ELSE LET i == CHOOSE k \in 1..Len(q) : q[k] = x
       IN [k \in 1..(Len(q) - 1) |-> IF k = i THEN q[Len(q)] ELSE q[k]]

RECURSIVE Filter(_, _)
\* Array.prototype.filter with the element removed: q.filter(c => c !== x)
Filter(q, x) ==
  IF q = << >> THEN << >>
  ELSE IF Head(q) = x THEN Filter(Tail(q), x)
       ELSE << Head(q) >> \o Filter(Tail(q), x)

InSeq(x, q) == \E i \in 1..Len(q) : q[i] = x

\* ------------------------------------------------------ JavaScript numbers
Abs(x) == IF x < 0 THEN -x ELSE x
Sign(x) == IF x < 0 THEN -1 ELSE IF x > 0 THEN 1 ELSE 0

RECURSIVE GCD(_, _)
GCD(a, b) == IF b = 0 THEN a ELSE GCD(b, a % b)

\* the number n/d in lowest terms with d >= 0
Num(n, d) ==
  IF d = 0 THEN [n |-> Sign(n), d |-> 0]
  ELSE LET g == GCD(Abs(n), Abs(d))
           sg == IF d < 0 THEN -1 ELSE 1
       IN [n |-> (sg * n) \div g, d |-> (sg * d) \div g]

OfInt(k) == [n |-> k, d |-> 1]
NaN == [n |-> 0, d |-> 0]
IsNaN(a) == a.d = 0 /\ a.n = 0
IsFinite(a) == a.d # 0

Neg(a) == [n |-> -a.n, d |-> a.d]

\* a + b
Add(a, b) ==
  IF a.d = 0 /\ b.d = 0 THEN (IF a.n = b.n THEN a ELSE NaN)
  ELSE IF a.d = 0 THEN a
  ELSE IF b.d = 0 THEN b
  ELSE LET g == GCD(a.d, b.d)
       IN Num(a.n * (b.d \div g) + b.n * (a.d \div g), (a.d \div g) * b.d)

\* a - b
Sub(a, b) == Add(a, Neg(b))

\* a * b, both in lowest terms
Mul(a, b) ==
  IF a.d = 0 \/ b.d = 0 THEN [n |-> Sign(a.n * b.n), d |-> 0]
  ELSE IF a.n = 0 \/ b.n = 0 THEN [n |-> 0, d |-> 1]
  ELSE LET g1 == GCD(Abs(a.n), b.d)
           g2 == GCD(Abs(b.n), a.d)
       IN [n |-> (a.n \div g1) * (b.n \div g2), d |-> (a.d \div g2) * (b.d \div g1)]

\* 1 / b
Recip(b) ==
  IF b.n < 0 THEN [n |-> -b.d, d |-> -b.n] ELSE [n |-> b.d, d |-> b.n]

\* a / b
Div(a, b) == Mul(a, Recip(b))

RECURSIVE Pow(_, _)
\* Math.pow(a, k) for an integer k >= 0
Pow(a, k) == IF k = 0 THEN OfInt(1) ELSE Mul(a, Pow(a, k - 1))

\* a <= b; false when either is NaN
Leq(a, b) ==
  /\ ~IsNaN(a)
  /\ ~IsNaN(b)
  /\ IF a.d = 0 /\ b.d = 0 THEN a.n <= b.n ELSE a.n * b.d <= b.n * a.d

\* a > b; false when either is NaN
Gt(a, b) == ~IsNaN(a) /\ ~IsNaN(b) /\ ~Leq(a, b)

\* ------------------------------------------------------- QueueingModel
RECURSIVE factorial(_)
\* QueueingModel.factorial
factorial(n) == IF n = 0 \/ n = 1 THEN 1 ELSE n * factorial(n - 1)

\* calculateTrafficIntensity
CalculateTrafficIntensity(arrivalRate, serviceRate, servers) ==
  Div(arrivalRate, Mul(OfInt(servers), serviceRate))

RECURSIVE SummationPart(_, _, _)
\* the loop of calculateProbabilityZero: the sum over n = 0 .. servers - 1
SummationPart(arrivalRate, serviceRate, n) ==
  IF n = 0 THEN OfInt(0)
  ELSE Add(SummationPart(arrivalRate, serviceRate, n - 1),
           Div(Pow(Div(arrivalRate, serviceRate), n - 1), OfInt(factorial(n - 1))))

\* calculateProbabilityZero
CalculateProbabilityZero(arrivalRate, serviceRate, servers, rho) ==
  LET sum == SummationPart(arrivalRate, serviceRate, servers)
      finalTerm == Mul(Div(Pow(Div(arrivalRate, serviceRate), servers),
                           OfInt(factorial(servers))),
                       Div(OfInt(1), Sub(OfInt(1), rho)))
  IN Div(OfInt(1), Add(sum, finalTerm))

\* calculateAverageQueueLength with the factor rho left out of the numerator
CalculateAverageQueueLength_NoRho(arrivalRate, serviceRate, servers, rho, probabilityZero) ==
  LET numerator == Mul(Pow(Div(arrivalRate, serviceRate), servers), probabilityZero)
      denominator == Mul(OfInt(factorial(servers)), Pow(Sub(OfInt(1), rho), 2))
  IN Div(numerator, denominator)

\* calculateAverageQueueLength
CalculateAverageQueueLength(arrivalRate, serviceRate, servers, rho, probabilityZero) ==
  LET numerator == Mul(Mul(Pow(Div(arrivalRate, serviceRate), servers), rho),
                       probabilityZero)
      denominator == Mul(OfInt(factorial(servers)), Pow(Sub(OfInt(1), rho), 2))
  IN Div(numerator, denominator)

\* calculateAverageTimeInQueue, on a constructed model
CalculateAverageTimeInQueue(this) == Div(this.averageQueueLength, this.arrivalRate)

\* new QueueingModel(arrivalRate, serviceRate, servers)
QueueingModel(arrivalRate, serviceRate, servers) ==
  LET trafficIntensity == CalculateTrafficIntensity(arrivalRate, serviceRate, servers)
      probabilityZero ==
        CalculateProbabilityZero(arrivalRate, serviceRate, servers, trafficIntensity)
      averageQueueLength ==
        CalculateAverageQueueLength(arrivalRate, serviceRate, servers,
                                    trafficIntensity, probabilityZero)
  IN [arrivalRate |-> arrivalRate, serviceRate |-> serviceRate, servers |-> servers,
      trafficIntensity |-> trafficIntensity,
      probabilityZero |-> probabilityZero,
      averageQueueLength |-> averageQueueLength,
      averageTimeInQueue |-> Div(averageQueueLength, arrivalRate),
      utilization |-> trafficIntensity]

\* the fields a QueueingModel is constructed from
ModelOf(arrivalRate, serviceRate, servers) ==
  [arrivalRate |-> arrivalRate, serviceRate |-> serviceRate, servers |-> servers]

\* the QueueingModel object constructed from them
Constructed(m) == QueueingModel(m.arrivalRate, m.serviceRate, m.servers)

\* "new QueueingModel(0.5, 0.3, 2)" of the CafeSystem constructor
InitialModel == ModelOf(Num(1, 2), Num(3, 10), 2)

RECURSIVE ReduceServers(_, _, _)
\* optimizeServersForWaitTime, the loop "while (servers > 1)"
ReduceServers(this, targetWaitTime, servers) ==
  IF servers > 1
  THEN LET testModel == QueueingModel(this.arrivalRate, this.serviceRate, servers - 1)
       IN IF Gt(CalculateAverageTimeInQueue(testModel), targetWaitTime)
          THEN servers
          ELSE ReduceServers(this, targetWaitTime, servers - 1)
  ELSE servers

RECURSIVE IncreaseServers(_, _, _, _)
\* optimizeServersForWaitTime, the loop "while (currentWait > targetWaitTime)";
\* 0 stands for a search that is still running at SearchLimit servers
IncreaseServers(this, targetWaitTime, servers, currentWait) ==
  IF Gt(currentWait, targetWaitTime)
  THEN IF servers >= SearchLimit THEN 0
       ELSE LET testModel == QueueingModel(this.arrivalRate, this.serviceRate, servers + 1)
            IN IncreaseServers(this, targetWaitTime, servers + 1,
                               CalculateAverageTimeInQueue(testModel))
  ELSE servers

\* optimizeServersForWaitTime(targetWaitTime): the model after the call
\* and the value returned
OptimizeServersForWaitTime(this, targetWaitTime) ==
  LET currentWait == CalculateAverageTimeInQueue(Constructed(this))
  IN [this |-> this,
      servers |-> IF Leq(currentWait, targetWaitTime)
                  THEN ReduceServers(this, targetWaitTime, this.servers)
                  ELSE IncreaseServers(this, targetWaitTime, this.servers, currentWait)]

\* no call of optimizeServersForWaitTime has returned on the current model
NoReturn == [target |-> NaN, servers |-> -1]

\* no call of optimizeServersForWaitTime is running
NoCall == [pc |-> "none"]

\* ------------------------------------------------------------ Customer
\* patience = basePatience * (0.8 + Math.random() * 0.4), in gameTime
\* units (x 60); r is the second factor in percent.
PatienceOf(type, r) ==
  (CUSTOMER_TYPES[type].basePatience * r * MinuteUnits) \div 100

\* "CUSTOMER_TYPES[type] || CUSTOMER_TYPES.student": the key of the entry
\* the constructor reads, for a key that is no inherited one
CustomerTypeKey(type) == IF type \in DOMAIN CUSTOMER_TYPES THEN type ELSE 1

\* what a call of the constructor leaves when it throws
TypeError == [thrown |-> "TypeError"]

\* new Customer(type, gameTime), every field: r, rs, rt and u are the four
\* random draws, in percent; spendingPower is in hundredths and
\* tipMultiplier in thousandths.  An inherited key yields a function of
\* Object.prototype, which is truthy and has no orderPreferences: the
\* spread "[...customerType.orderPreferences]" throws.
Customer(type, gt, r, rs, rt, u) ==
  IF type \in InheritedKeys THEN TypeError
  ELSE LET key == CustomerTypeKey(type)
           customerType == CUSTOMER_TYPES[key]
       IN [type |-> type, name |-> customerType.name,
           patience |-> PatienceOf(key, r),
           spendingPower |-> customerType.baseSpend * rs,
           tipMultiplier |-> customerType.tipMultiplier * rt,
           orderPreferences |-> customerType.orderPreferences,
           hasSpecialRequest |-> u < customerType.specialRequests,
           arrivalTime |-> gt, state |-> "entering",
           satisfaction |-> FullSatisfaction, waitStartTime |-> 0, table |-> -1,
           hasOrder |-> FALSE]

\* no call of the constructor on its own has been made
NoneConstructed == [type |-> -1, customer |-> [state |-> "none"]]

\* A customer that has not been constructed yet.
NoCustomer ==
  [type |-> 0, patience |-> 0, tipMultiplier |-> 0, state |-> "none",
   satisfaction |-> 0, waitStartTime |-> 0, table |-> -1, hasOrder |-> FALSE]

\* new Customer(type, gameTime) in spawnCustomer, where type is a key of
\* CUSTOMER_TYPES: the fields the cafe reads.  r and rt are the draws of
\* patience and of tipMultiplier, in percent; tipMultiplier is in thousandths.
NewCustomer(type, r, rt) ==
  [type |-> type, patience |-> PatienceOf(type, r),
   tipMultiplier |-> CUSTOMER_TYPES[type].tipMultiplier * rt, state |-> "entering",
   satisfaction |-> FullSatisfaction, waitStartTime |-> 0, table |-> -1,
   hasOrder |-> FALSE]

\* "this.order = null"; totalPrice is in cents
NoOrder == [status |-> "none", prepTime |-> 0, totalPrice |-> 0, timePlaced |-> 0,
            timeStarted |-> 0, timeCompleted |-> 0]

\* Customer.generateOrder(availableItems).  Every preference is on the menu
\* and checkBakeryAvailability is always true, so itemsToChooseFrom is
\* orderPreferences when availableItems is the menu, and it is empty when
\* availableItems is empty.  pick is the index drawn in itemsToChooseFrom,
\* and 0 when itemsToChooseFrom is empty: "return null".
GenerateOrder(type, pick, quantity) ==
  IF pick = 0 THEN NoOrder
  ELSE LET selectedItem == CUSTOMER_TYPES[type].orderPreferences[pick]
       IN [status |-> "pending", prepTime |-> MENU_ITEMS[selectedItem].prepTime,
           totalPrice |-> MENU_ITEMS[selectedItem].price * quantity,
           timePlaced |-> 0, timeStarted |-> 0, timeCompleted |-> 0]

\* "Math.max(0, 100 - (waitTime * 5))" with waitTime = elapsed / 60
WaitingSatisfaction(elapsed) ==
  Max(0, FullSatisfaction - (elapsed * 10) \div MinuteUnits)

\* the eating branch without Math.min(100, ...)
EatingSatisfaction_NoClamp(sat, timeDelta) == sat + timeDelta

\* "Math.min(100, this.satisfaction + (timeDelta * 0.5))"
EatingSatisfaction(sat, timeDelta) ==
  Min(FullSatisfaction, sat + timeDelta)

\* the abandonment test with "waitTime >= this.patience"
WaitedTooLong_AtPatience(elapsed, patience) == elapsed >= patience

\* "waitTime > this.patience", both sides times 60
WaitedTooLong(elapsed, patience) == elapsed > patience

\* calculateTip: totalPrice * (0.1 + Math.random() * 0.1) * satisfaction / 100
\* * tipMultiplier, in dollars; u is the second factor in percent
CalculateTip(c, o, u) ==
  Mul(Mul(Num(o.totalPrice, 100), Num(u, 100)),
      Mul(Num(c.satisfaction, FullSatisfaction), Num(c.tipMultiplier, 1000)))

\* Customer.update(gameTime, timeDelta): the new customer and the result,
\* with the amount and the tip of a payment in dollars.  o is this.order
\* and u the draw of calculateTip.
CustomerUpdate(c, o, gt, timeDelta, u) ==
  CASE c.state \in {"waiting", "waiting_for_order"} ->
         LET elapsed == gt - c.waitStartTime
             c1 == [c EXCEPT !.satisfaction = WaitingSatisfaction(elapsed)]
         IN IF WaitedTooLong(elapsed, c.patience)
            THEN [c |-> [c1 EXCEPT !.state = "leaving"], result |-> "customer_left"]
            ELSE [c |-> c1, result |-> "none"]
    [] c.state = "eating" ->
         LET c1 == [c EXCEPT !.satisfaction = EatingSatisfaction(c.satisfaction, timeDelta)]
         IN IF gt - c.waitStartTime > EatMinutes * MinuteUnits
            THEN [c |-> [c1 EXCEPT !.state = "paying", !.waitStartTime = gt],
                  result |-> "none"]
            ELSE [c |-> c1, result |-> "none"]
    [] c.state = "paying" ->
         IF gt - c.waitStartTime > PayMinutes * MinuteUnits
         THEN [c |-> [c EXCEPT !.state = "leaving"], result |-> "payment_received",
               amount |-> Num(o.totalPrice, 100), tip |-> CalculateTip(c, o, u)]
         ELSE [c |-> c, result |-> "none"]
    [] OTHER -> [c |-> c, result |-> "none"]

\* ---------------------------------------------------------- CafeSystem
\* The cafe's mutable fields, threaded through the steps of one handler.
Cafe ==
  [customers |-> customers, queue |-> queue, orders |-> orders, cust |-> cust,
   ord |-> ord, tables |-> tables, timers |-> timers, nextId |-> nextId,
   emitted |-> emitted, queueModel |-> queueModel, playerStats |-> playerStats]

\* updateQueueModel: new QueueingModel(queue.length / (gameTime / 60),
\* availableServers * 0.3, availableServers)
UpdateQueueModel(s, gt, servers) ==
  LET arrivalRate == Num(Len(s.queue) * MinuteUnits, gt)
      serviceRate == Num(servers * 3, 10)
  IN [s EXCEPT !.queueModel = ModelOf(arrivalRate, serviceRate, servers)]

\* spawnCustomer with "this.queue.unshift(customer)"
SpawnCustomer_AtHead(s, gt, servers, type, r, rt) ==
  LET id == s.nextId
      c == [NewCustomer(type, r, rt) EXCEPT !.state = "waiting", !.waitStartTime = gt]
      s1 == [s EXCEPT !.customers = Append(@, id), !.queue = << id >> \o @,
                      !.cust[id] = c, !.nextId = @ + 1]
  IN UpdateQueueModel(s1, gt, servers)

\* spawnCustomer
SpawnCustomer(s, gt, servers, type, r, rt) ==
  LET id == s.nextId
      c == [NewCustomer(type, r, rt) EXCEPT !.state = "waiting", !.waitStartTime = gt]
      s1 == [s EXCEPT !.customers = Append(@, id), !.queue = Append(@, id),
                      !.cust[id] = c, !.nextId = @ + 1]
  IN UpdateQueueModel(s1, gt, servers)

\* A customer object after "this.customers.splice(i, 1)": unreachable.
Collected(c) == [NoCustomer EXCEPT !.state = c.state]

\* "Math.floor((customer.satisfaction - 50) / 10)", satisfaction in half points
RepChange(satisfaction) == (satisfaction - 100) \div 20

\* "Math.max(0, Math.min(100, ...))"
Clamp(x) == Max(0, Min(100, x))

\* handlePayment without "customer.table.customer = null"
HandlePayment_KeepsReference(s, id, amount, tip) ==
  LET t == s.cust[id].table
      s1 == [s EXCEPT !.playerStats.money = Add(@, Add(amount, tip)),
                      !.playerStats.reputation =
                         Clamp(@ + RepChange(s.cust[id].satisfaction))]
  IN IF t # -1
     THEN [s1 EXCEPT !.tables[t].status = "dirty", !.cust[id].table = -1]
     ELSE s1

\* handlePayment(customer, amount, tip): credits the player's money, moves
\* the reputation and frees the table (dailyEarnings and dailyCustomers of
\* the cafe, which nothing reads, are left out)
HandlePayment(s, id, amount, tip) ==
  LET t == s.cust[id].table
      s1 == [s EXCEPT !.playerStats.money = Add(@, Add(amount, tip)),
                      !.playerStats.reputation =
                         Clamp(@ + RepChange(s.cust[id].satisfaction))]
  IN IF t # -1
     THEN [s1 EXCEPT !.tables[t] = [status |-> "dirty", customer |-> 0],
                     !.cust[id].table = -1]
     ELSE s1

\* the switch of handleCustomerLeave on the reason; no caller passes
\* 'no_available_tables'
LeavePenalty(reason) == IF reason = "waited_too_long" THEN 2 ELSE 0

\* handleCustomerLeave without "customer.table.status = 'dirty'"
HandleCustomerLeave_KeepsSeat(s, id, reason) ==
  [s EXCEPT !.playerStats.reputation = Max(0, @ - LeavePenalty(reason)),
            !.queue = Filter(@, id)]

\* handleCustomerLeave without "this.queue = this.queue.filter(...)"
HandleCustomerLeave_KeepsQueued(s, id, reason) ==
  LET t == s.cust[id].table
      s0 == [s EXCEPT !.playerStats.reputation = Max(0, @ - LeavePenalty(reason))]
  IN IF t # -1
     THEN [s0 EXCEPT !.tables[t] = [status |-> "dirty", customer |-> 0]]
     ELSE s0

\* handleCustomerLeave(customer, reason)
HandleCustomerLeave(s, id, reason) ==
  LET t == s.cust[id].table
      s0 == [s EXCEPT !.playerStats.reputation = Max(0, @ - LeavePenalty(reason))]
      s1 == IF t # -1
            THEN [s0 EXCEPT !.tables[t] = [status |-> "dirty", customer |-> 0]]
            ELSE s0
  IN [s1 EXCEPT !.queue = Filter(@, id)]

\* update without its loop over this.customers
UpdateCustomers_Skipped(s, i, gt, timeDelta, tip) == s

RECURSIVE UpdateCustomers(_, _, _, _, _)
\* the loop of CafeSystem.update over this.customers, last to first; tip is
\* the draw of calculateTip
UpdateCustomers(s, i, gt, timeDelta, tip) ==
  IF i = 0 THEN s
  ELSE
    LET id == s.customers[i]
        u == CustomerUpdate(s.cust[id], s.ord[id], gt, timeDelta, tip)
        s1 == [s EXCEPT !.cust[id] = u.c]
        s2 == CASE u.result = "customer_left" ->
                     [HandleCustomerLeave(s1, id, "waited_too_long") EXCEPT
                        !.customers = Filter(@, id),
                        !.cust[id] = Collected(@),
                        !.emitted[id] = Append(@, "customer_left")]
                [] u.result = "payment_received" ->
                     [HandleCustomerLeave(HandlePayment(s1, id, u.amount, u.tip),
                                          id, "paid") EXCEPT
                        !.customers = Filter(@, id),
                        !.cust[id] = Collected(@),
                        !.emitted[id] = Append(@, "payment_received")]
                [] OTHER -> s1
    IN UpdateCustomers(s2, i - 1, gt, timeDelta, tip)

\* serveOrder setting "customer.state = 'paying'"
ServeOrder_Paying(s, id, gt) ==
  IF InSeq(id, s.customers)
  THEN
    LET o == s.ord[id]
        c == s.cust[id]
        elapsed == gt - o.timePlaced
        late == elapsed * 2 > o.prepTime * 3 * MinuteUnits
        waitPenalty == (elapsed * 10) \div MinuteUnits - o.prepTime * 15
        sat == IF late THEN Max(0, c.satisfaction - waitPenalty)
               ELSE Min(FullSatisfaction, c.satisfaction + 10)
    IN [s EXCEPT !.cust[id] = [c EXCEPT !.state = "paying", !.waitStartTime = gt,
                                        !.satisfaction = sat],
                 !.ord[id].status = "served"]
  ELSE s

\* serveOrder without "customer.waitStartTime = this.game.gameTime"
ServeOrder_KeepsWaitStart(s, id, gt) ==
  IF InSeq(id, s.customers)
  THEN
    LET o == s.ord[id]
        c == s.cust[id]
        elapsed == gt - o.timePlaced
        late == elapsed * 2 > o.prepTime * 3 * MinuteUnits
        waitPenalty == (elapsed * 10) \div MinuteUnits - o.prepTime * 15
        sat == IF late THEN Max(0, c.satisfaction - waitPenalty)
               ELSE Min(FullSatisfaction, c.satisfaction + 10)
    IN [s EXCEPT !.cust[id] = [c EXCEPT !.state = "eating", !.satisfaction = sat],
                 !.ord[id].status = "served"]
  ELSE s

\* serveOrder(order): the order of customer id has just become ready
ServeOrder(s, id, gt) ==
  IF InSeq(id, s.customers)       \* this.customers.find(c => c.order === order)
  THEN
    LET o == s.ord[id]
        c == s.cust[id]
        elapsed == gt - o.timePlaced
        \* waitTime > prepTime * 1.5, both sides times 60
        late == elapsed * 2 > o.prepTime * 3 * MinuteUnits
        \* (waitTime - expectedWaitTime) * 5, in half points
        waitPenalty == (elapsed * 10) \div MinuteUnits - o.prepTime * 15
        sat == IF late THEN Max(0, c.satisfaction - waitPenalty)
               ELSE Min(FullSatisfaction, c.satisfaction + 10)
    IN [s EXCEPT !.cust[id] = [c EXCEPT !.state = "eating", !.waitStartTime = gt,
                                        !.satisfaction = sat],
                 !.ord[id].status = "served"]
  ELSE s

\* the orders of a sequence that have the given status, in sequence order
OrdersWithStatus(s, st) ==
  SelectSeq(s.orders, LAMBDA id : s.ord[id].status = st)

\* processOrders starting every pending order, whatever the capacity
OrdersToStart_NoCap(nPreparing, nPending, servers) == nPending

\* min(availableServers - preparing, pending), or 0 when the guard fails
OrdersToStart(nPreparing, nPending, servers) ==
  IF nPreparing < servers /\ nPending > 0
  THEN Min(servers - nPreparing, nPending)
  ELSE 0

\* processOrders taking the server count from the queueing model
StartOrders_ModelServers(s, gt, servers) ==
  LET pendingOrders == OrdersWithStatus(s, "pending")
      preparingOrders == OrdersWithStatus(s, "preparing")
      ordersToStart == OrdersToStart(Len(preparingOrders), Len(pendingOrders),
                                     s.queueModel.servers)
      started == { pendingOrders[i] : i \in 1..ordersToStart }
  IN [s EXCEPT !.ord = [id \in Ids |->
                          IF id \in started
                          THEN [s.ord[id] EXCEPT !.status = "preparing",
                                                 !.timeStarted = gt]
                          ELSE s.ord[id]]]

\* processOrders starting the pending orders placed last
StartOrders_NewestFirst(s, gt, servers) ==
  LET pendingOrders == OrdersWithStatus(s, "pending")
      preparingOrders == OrdersWithStatus(s, "preparing")
      ordersToStart == OrdersToStart(Len(preparingOrders), Len(pendingOrders), servers)
      started == { pendingOrders[Len(pendingOrders) + 1 - i] : i \in 1..ordersToStart }
  IN [s EXCEPT !.ord = [id \in Ids |->
                          IF id \in started
                          THEN [s.ord[id] EXCEPT !.status = "preparing",
                                                 !.timeStarted = gt]
                          ELSE s.ord[id]]]

\* processOrders marking the orders it starts as ready
StartOrders_SkipsPreparing(s, gt, servers) ==
  LET pendingOrders == OrdersWithStatus(s, "pending")
      preparingOrders == OrdersWithStatus(s, "preparing")
      ordersToStart == OrdersToStart(Len(preparingOrders), Len(pendingOrders), servers)
      started == { pendingOrders[i] : i \in 1..ordersToStart }
  IN [s EXCEPT !.ord = [id \in Ids |->
                          IF id \in started
                          THEN [s.ord[id] EXCEPT !.status = "ready",
                                                 !.timeStarted = gt]
                          ELSE s.ord[id]]]

\* processOrders, first half: promote pending orders to preparing
StartOrders(s, gt, servers) ==
  LET pendingOrders == OrdersWithStatus(s, "pending")
      preparingOrders == OrdersWithStatus(s, "preparing")
      ordersToStart == OrdersToStart(Len(preparingOrders), Len(pendingOrders), servers)
      started == { pendingOrders[i] : i \in 1..ordersToStart }
  IN [s EXCEPT !.ord = [id \in Ids |->
                          IF id \in started
                          THEN [s.ord[id] EXCEPT !.status = "preparing",
                                                 !.timeStarted = gt]
                          ELSE s.ord[id]]]

\* "prepTimeElapsed >= order.prepTime", both sides times 60
PrepDone(o, gt) ==
  LET since == IF o.timeStarted # 0 THEN o.timeStarted ELSE o.timePlaced
  IN gt - since >= o.prepTime * MinuteUnits

RECURSIVE CompleteOrders(_, _, _)
\* processOrders, second half: the loop over the preparing orders
CompleteOrders(s, preparing, gt) ==
  IF preparing = << >> THEN s
  ELSE
    LET id == Head(preparing)
        s1 == IF PrepDone(s.ord[id], gt)
              THEN ServeOrder([s EXCEPT !.ord[id].status = "ready",
                                        !.ord[id].timeCompleted = gt], id, gt)
              ELSE s
    IN CompleteOrders(s1, Tail(preparing), gt)

\* processOrders
ProcessOrders(s, gt, servers) ==
  LET s1 == StartOrders(s, gt, servers)
  IN CompleteOrders(s1, OrdersWithStatus(s1, "preparing"), gt)

\* findAvailableTable testing "table.status !== 'cleaning'"
Available_NotCleaning(status) == status # "cleaning"

\* findAvailableTable testing "table.status !== 'waiting'"
Available_NotOccupied(status) == status # "waiting"

\* the statuses findAvailableTable accepts
Available(status) == status = "empty" \/ status = "dirty"

\* findAvailableTable: the first such table, or -1
FindAvailableTable(s) ==
  IF \E t \in DOMAIN s.tables : Available(s.tables[t].status)
  THEN CHOOSE t \in DOMAIN s.tables :
         /\ Available(s.tables[t].status)
         /\ \A u \in DOMAIN s.tables : u < t => ~Available(s.tables[u].status)
  ELSE -1

\* seatCustomer without "customer.waitStartTime = this.game.gameTime"
SeatCustomer_KeepsWaitStart(s, id, t, gt, pick, quantity) ==
  IF s.tables[t].status = "dirty"
  THEN [s EXCEPT !.tables[t].status = "cleaning", !.timers[t] = CleaningDelay]
  ELSE
    LET o == GenerateOrder(s.cust[id].type, pick, quantity)
        s1 == [s EXCEPT !.tables[t] = [status |-> "waiting", customer |-> id],
                        !.cust[id].table = t,
                        !.cust[id].state = "waiting"]
    IN IF o # NoOrder
       THEN [s1 EXCEPT !.cust[id].hasOrder = TRUE,
                       !.cust[id].state = "waiting_for_order",
                       !.ord[id] = [o EXCEPT !.timePlaced = gt],
                       !.orders = Append(@, id)]
       ELSE s1

\* seatCustomer without "customer.state = 'waiting_for_order'"
SeatCustomer_StaysWaiting(s, id, t, gt, pick, quantity) ==
  IF s.tables[t].status = "dirty"
  THEN [s EXCEPT !.tables[t].status = "cleaning", !.timers[t] = CleaningDelay]
  ELSE
    LET o == GenerateOrder(s.cust[id].type, pick, quantity)
        s1 == [s EXCEPT !.tables[t] = [status |-> "waiting", customer |-> id],
                        !.cust[id].table = t,
                        !.cust[id].state = "waiting",
                        !.cust[id].waitStartTime = gt]
    IN IF o # NoOrder
       THEN [s1 EXCEPT !.cust[id].hasOrder = TRUE,
                       !.ord[id] = [o EXCEPT !.timePlaced = gt],
                       !.orders = Append(@, id)]
       ELSE s1

\* seatCustomer(customer, table); pick and quantity are the draws of
\* generateOrder
SeatCustomer(s, id, t, gt, pick, quantity) ==
  IF s.tables[t].status = "dirty"
  THEN [s EXCEPT !.tables[t].status = "cleaning", !.timers[t] = CleaningDelay]
  ELSE
    LET o == GenerateOrder(s.cust[id].type, pick, quantity)
        s1 == [s EXCEPT !.tables[t] = [status |-> "waiting", customer |-> id],
                        !.cust[id].table = t,
                        !.cust[id].state = "waiting",
                        !.cust[id].waitStartTime = gt]
    IN IF o # NoOrder                \* "if (customer.order)"
       THEN [s1 EXCEPT !.cust[id].hasOrder = TRUE,
                       !.cust[id].state = "waiting_for_order",
                       !.ord[id] = [o EXCEPT !.timePlaced = gt],
                       !.orders = Append(@, id)]
       ELSE s1

RECURSIVE SeatLoop_KeepsQueued(_, _, _, _, _)
\* the loop of processQueue without "this.queue = this.queue.filter(...)"
SeatLoop_KeepsQueued(s, waitingCustomers, gt, picks, quantity) ==
  IF waitingCustomers = << >> THEN s
  ELSE
    LET id == Head(waitingCustomers)
        t == FindAvailableTable(s)
    IN IF t # -1
       THEN SeatLoop_KeepsQueued(SeatCustomer(s, id, t, gt, picks[id], quantity),
                                 Tail(waitingCustomers), gt, picks, quantity)
       ELSE s

RECURSIVE SeatLoop(_, _, _, _, _)
\* the loop of processQueue over the snapshot waitingCustomers
SeatLoop(s, waitingCustomers, gt, picks, quantity) ==
  IF waitingCustomers = << >> THEN s
  ELSE
    LET id == Head(waitingCustomers)
        t == FindAvailableTable(s)
    IN IF t # -1
       THEN SeatLoop([SeatCustomer(s, id, t, gt, picks[id], quantity) EXCEPT
                        !.queue = Filter(@, id)],
                     Tail(waitingCustomers), gt, picks, quantity)
       ELSE s

\* processQueue
ProcessQueue(s, gt, servers, picks, quantity) ==
  LET waitingCustomers == SelectSeq(s.queue, LAMBDA id : s.cust[id].state = "waiting")
  IN UpdateQueueModel(SeatLoop(s, waitingCustomers, gt, picks, quantity), gt, servers)

\* update handling the queue before it updates the customers
UpdateCafe_QueueFirst(s, gt, timeDelta, servers, picks, quantity, tip) ==
  LET s1 == ProcessQueue(s, gt, servers, picks, quantity)
      s2 == UpdateCustomers(s1, Len(s1.customers), gt, timeDelta, tip)
  IN ProcessOrders(s2, gt, servers)

\* CafeSystem.update(timeDelta), without the random spawn and the render:
\* picks and quantity are the draws of generateOrder for the customers
\* seated and tip is the draw of calculateTip
UpdateCafe(s, gt, timeDelta, servers, picks, quantity, tip) ==
  LET s1 == UpdateCustomers(s, Len(s.customers), gt, timeDelta, tip)
      s2 == ProcessOrders(s1, gt, servers)
  IN ProcessQueue(s2, gt, servers, picks, quantity)

\* "Math.random() < 0.05 && this.customers.length < 10": spawn stands for
\* the draw; the run also stops spawning after MaxCustomers customers.
MaySpawn(s, gt) ==
  Len(s.customers) < SpawnCap /\ s.nextId <= MaxCustomers /\ gt <= SpawnDeadline

\* -------------------------------------------------------------- actions
Install(s) ==
  /\ customers' = s.customers
  /\ queue' = s.queue
  /\ orders' = s.orders
  /\ cust' = s.cust
  /\ ord' = s.ord
  /\ tables' = s.tables
  /\ timers' = s.timers
  /\ nextId' = s.nextId
  /\ emitted' = s.emitted
  /\ queueModel' = s.queueModel
  /\ playerStats' = s.playerStats

\* GameEngine.playerStats at construction: the fields the cafe assigns,
\* money in dollars
InitialStats == [money |-> OfInt(1000), reputation |-> 50]

Init ==
  /\ gameTime = StartTime
  /\ isPaused = TRUE
  /\ availableServers = AvailableServers
  /\ isPanelOpen = FALSE
  /\ customers = << >>
  /\ queue = << >>
  /\ orders = << >>
  /\ cust = [id \in Ids |-> NoCustomer]
  /\ ord = [id \in Ids |-> NoOrder]
  /\ \E count \in TableCounts :
       /\ tables = [t \in 0..(count - 1) |-> [status |-> "empty", customer |-> 0]]
       /\ timers = [t \in 0..(count - 1) |-> NoTimer]
  /\ nextId = 1
  /\ emitted = [id \in Ids |-> << >>]
  /\ queueModel = InitialModel
  /\ returned = NoReturn
  /\ optimizer = NoCall
  /\ constructed = NoneConstructed
  /\ playerStats = InitialStats

\* setDifficulty -> startGame
StartGame ==
  /\ isPaused
  /\ isPaused' = FALSE
  /\ UNCHANGED << gameTime, availableServers, isPanelOpen, customers, queue, orders, cust, ord,
                  tables, timers, nextId, emitted, queueModel, returned, optimizer, constructed,
                  playerStats >>

\* handleSpawnCustomerAction, and the staggered spawns of spawnInitialCustomers
Spawn ==
  /\ nextId <= MaxCustomers
  /\ gameTime <= SpawnDeadline
  /\ \E type \in TypeIds, r \in PatienceFactors, rt \in TipMultiplierFactors :
       \E s \in { SpawnCustomer(Cafe, gameTime, availableServers, type, r, rt) } :
         Install(s)
  /\ UNCHANGED << gameTime, isPaused, availableServers, isPanelOpen, returned, optimizer, constructed >>

\* One frame of gameLoop while not paused: gameTime advances by minutes
\* whole minutes and every system is updated; the cafe's update receives
\* this.gameTime as its only argument, timeDelta.
Tick ==
  /\ ~isPaused
  /\ \E minutes \in TickMinutes :
       LET gt == gameTime + minutes * MinuteUnits
       IN /\ gt <= MaxTime
          /\ gameTime' = gt
          /\ \E picks \in [{ queue[i] : i \in 1..Len(queue) } -> 1..3],
                quantity \in Quantities, tip \in TipPercents :
               \E s \in { UpdateCafe(Cafe, gt, gt, availableServers, picks, quantity, tip) } :
                  \/ Install(s)
                  \/ /\ MaySpawn(s, gt)
                     /\ \E type \in TypeIds, r \in PatienceFactors,
                           rt \in TipMultiplierFactors :
                          \E s2 \in { SpawnCustomer(s, gt, availableServers, type, r, rt) } :
                            Install(s2)
  /\ UNCHANGED << isPaused, availableServers, isPanelOpen, returned, optimizer, constructed >>

\* 3000 ms of wall-clock time pass; a due callback runs first
WallTick ==
  /\ \E t \in DOMAIN timers : timers[t] > 0
  /\ \A t \in DOMAIN timers : timers[t] # 0
  /\ timers' = [t \in DOMAIN timers |-> IF timers[t] > 0 THEN timers[t] - 1 ELSE timers[t]]
  /\ UNCHANGED << gameTime, isPaused, availableServers, isPanelOpen, customers, queue, orders,
                  cust, ord, tables, nextId, emitted, queueModel, returned, optimizer, constructed,
                  playerStats >>

\* the cleaning callback running before its delay is over
TimerFire_Early ==
  \E t \in DOMAIN timers :
    /\ timers[t] >= 0
    /\ tables' = [tables EXCEPT ![t].status = "empty"]
    /\ timers' = [timers EXCEPT ![t] = NoTimer]
    /\ UNCHANGED << gameTime, isPaused, availableServers, isPanelOpen, customers, queue, orders,
                    cust, ord, nextId, emitted, queueModel, returned, optimizer, constructed,
                  playerStats >>

\* the callback of setTimeout in seatCustomer: table.status = 'empty'
TimerFire ==
  \E t \in DOMAIN timers :
    /\ timers[t] = 0
    /\ tables' = [tables EXCEPT ![t].status = "empty"]
    /\ timers' = [timers EXCEPT ![t] = NoTimer]
    /\ UNCHANGED << gameTime, isPaused, availableServers, isPanelOpen, customers, queue, orders,
                    cust, ord, nextId, emitted, queueModel, returned, optimizer, constructed,
                  playerStats >>

Next == StartGame \/ Spawn \/ Tick \/ WallTick \/ TimerFire

Spec == Init /\ [][Next]_vars

\* --------------------------------------------------------- scheduling
\* gameLoop requests the next animation frame at the end of every frame, so
\* a tick is taken as long as the game runs; wall-clock time advances and
\* a setTimeout callback that is due is run.
\* the states in which Tick can be taken: its guards, the rest of the
\* frame being total
TickEnabled ==
  /\ ~isPaused
  /\ \E minutes \in TickMinutes : gameTime + minutes * MinuteUnits <= MaxTime

\* weak fairness of Tick, with ENABLED <<Tick>>_vars written out as
\* TickEnabled
TickFairness ==
  []<>(~TickEnabled) \/ []<><<Tick>>_vars

FairSpec ==
  Spec /\ TickFairness /\ WF_vars(WallTick) /\ WF_vars(TimerFire)

\* ------------------------------------------------- the longer day
\* the end of the runs long enough for every customer to leave: a customer
\* arrives within the first minute and waits, eats and pays for less than
\* 33 minutes
LongMaxTime == StartTime + LiveMinutes * MinuteUnits

\* a frame of gameLoop (Tick) in a run that ends at LongMaxTime
LongTick ==
  /\ ~isPaused
  /\ \E minutes \in TickMinutes :
       LET gt == gameTime + minutes * MinuteUnits
       IN /\ gt <= LongMaxTime
          /\ gameTime' = gt
          /\ \E picks \in [{ queue[i] : i \in 1..Len(queue) } -> 1..3],
                quantity \in Quantities, tip \in TipPercents :
               \E s \in { UpdateCafe(Cafe, gt, gt, availableServers, picks, quantity, tip) } :
                  \/ Install(s)
                  \/ /\ MaySpawn(s, gt)
                     /\ \E type \in TypeIds, r \in PatienceFactors,
                           rt \in TipMultiplierFactors :
                          \E s2 \in { SpawnCustomer(s, gt, availableServers, type, r, rt) } :
                            Install(s2)
  /\ UNCHANGED << isPaused, availableServers, isPanelOpen, returned, optimizer, constructed >>

LongNext == StartGame \/ Spawn \/ LongTick \/ WallTick \/ TimerFire

\* the states in which LongTick can be taken
LongTickEnabled ==
  /\ ~isPaused
  /\ \E minutes \in TickMinutes : gameTime + minutes * MinuteUnits <= LongMaxTime

\* the steps of LongNext that are frames: no other action changes gameTime
TimeAdvances == gameTime' # gameTime

\* weak fairness of LongTick, with ENABLED <<LongTick>>_vars written out as
\* LongTickEnabled and the LongTick steps as those that advance gameTime
LongTickFairness ==
  []<>(~LongTickEnabled) \/ []<><<TimeAdvances>>_vars

\* The cafe over the longer day, frames, wall-clock time and callbacks
\* going on.
LongFairSpec ==
  Init /\ [][LongNext]_vars /\ LongTickFairness
       /\ WF_vars(WallTick) /\ WF_vars(TimerFire)

\* ------------------------------------------ an empty candidate menu
\* a frame of gameLoop in which generateOrder may find no item to choose
\* from (pick 0), as it does when it is given an empty availableItems
MenuTick ==
  /\ ~isPaused
  /\ \E minutes \in TickMinutes :
       LET gt == gameTime + minutes * MinuteUnits
       IN /\ gt <= MaxTime
          /\ gameTime' = gt
          /\ \E picks \in [{ queue[i] : i \in 1..Len(queue) } -> 0..3],
                quantity \in Quantities, tip \in TipPercents :
               \E s \in { UpdateCafe(Cafe, gt, gt, availableServers, picks, quantity, tip) } :
                  \/ Install(s)
                  \/ /\ MaySpawn(s, gt)
                     /\ \E type \in TypeIds, r \in PatienceFactors,
                           rt \in TipMultiplierFactors :
                          \E s2 \in { SpawnCustomer(s, gt, availableServers, type, r, rt) } :
                            Install(s2)
  /\ UNCHANGED << isPaused, availableServers, isPanelOpen, returned, optimizer, constructed >>

MenuNext == StartGame \/ Spawn \/ MenuTick \/ WallTick \/ TimerFire

MenuSpec == Init /\ [][MenuNext]_vars

\* ------------------------------------------------- the time controls
\* the speeds of the pause, play, fast and ultra-fast buttons
GameSpeeds == {0, 1, 3, 10}

\* setGameSpeed(speed): speed 0 pauses, any other speed resumes; gameSpeed
\* itself only scales the length of a tick, which Tick draws
SetGameSpeed ==
  /\ \E speed \in GameSpeeds : isPaused' = (speed = 0)
  /\ UNCHANGED << gameTime, availableServers, isPanelOpen, customers, queue, orders, cust, ord,
                  tables, timers, nextId, emitted, queueModel, returned, optimizer, constructed,
                  playerStats >>

PauseNext == Next \/ SetGameSpeed

\* The cafe with the time controls in use.
PauseSpec == Init /\ [][PauseNext]_vars

\* ------------------------------------------------ the welcome screen
\* ManagementSystem.openPanel: "if (!this.isPanelOpen)", then game.pause()
OpenPanel ==
  /\ ~isPanelOpen
  /\ isPanelOpen' = TRUE
  /\ isPaused' = TRUE
  /\ UNCHANGED << gameTime, availableServers, customers, queue, orders, cust, ord,
                  tables, timers, nextId, emitted, queueModel, returned, optimizer, constructed,
                  playerStats >>

\* ManagementSystem.closePanel: "if (this.isPanelOpen)", then game.resume(),
\* which clears isPaused when it is set
ClosePanel ==
  /\ isPanelOpen
  /\ isPanelOpen' = FALSE
  /\ isPaused' = FALSE
  /\ UNCHANGED << gameTime, availableServers, customers, queue, orders, cust, ord,
                  tables, timers, nextId, emitted, queueModel, returned, optimizer, constructed,
                  playerStats >>

\* every handler and callback but setDifficulty: the frames of the game
\* loop that init starts, the spawn button, the time controls, the
\* management panel, wall-clock time and timer callbacks
WelcomeNext ==
  Spawn \/ Tick \/ WallTick \/ TimerFire \/ SetGameSpeed \/ OpenPanel \/ ClosePanel

\* The game for as long as no difficulty is selected.
WelcomeSpec == Init /\ [][WelcomeNext]_vars

\* ------------------------------------------- the queueing model on its own
cafeVars == << gameTime, isPaused, availableServers, isPanelOpen, customers, queue, orders,
               cust, ord, tables, timers, nextId, emitted, playerStats >>

\* this.queueModel = new QueueingModel(arrivalRate, serviceRate, servers),
\* with rates and a server count drawn from the input sets
NewQueueingModel ==
  /\ \E arrivalRate \in ArrivalRates, serviceRate \in ServiceRates,
        servers \in 1..MaxServers :
       queueModel' = ModelOf(arrivalRate, serviceRate, servers)
  /\ returned' = NoReturn
  /\ UNCHANGED << cafeVars, constructed, optimizer >>

\* a call this.queueModel.optimizeServersForWaitTime(targetWaitTime)
Optimize ==
  /\ \E targetWaitTime \in TargetWaits :
       LET r == OptimizeServersForWaitTime(queueModel, targetWaitTime)
       IN /\ queueModel' = r.this
          /\ returned' = [target |-> targetWaitTime, servers |-> r.servers]
  /\ UNCHANGED << cafeVars, constructed, optimizer >>

ModelNext == NewQueueingModel \/ Optimize

\* The queueing model and its optimizer, applied to the drawn inputs while
\* the cafe stays as constructed.
ModelSpec == Init /\ [][ModelNext]_vars

\* ------------------------------------- the optimizer's search in doubles
\* The search of optimizeServersForWaitTime runs on IEEE doubles.  Up to
\* ExactLimit servers the model's fractions are exact and the comparisons
\* with the target are those of the fractions; beyond, a double is known by
\* its class only, and an operation yields every class its operands allow
\* (a product of two finite numbers may underflow to zero or overflow).
Classes == {"nan", "ninf", "neg", "zero", "pos", "inf"}

\* the class of a fraction
ClassOf(a) ==
  IF IsNaN(a) THEN "nan"
  ELSE IF a.d = 0 THEN (IF a.n > 0 THEN "inf" ELSE "ninf")
  ELSE IF a.n = 0 THEN "zero"
  ELSE IF a.n > 0 THEN "pos" ELSE "neg"

IsInfinite(x) == x \in {"inf", "ninf"}
IsNegative(x) == x \in {"neg", "ninf"}

\* the classes of a finite or infinite result of the given sign
Rounded(negative) == IF negative THEN {"zero", "neg", "ninf"} ELSE {"zero", "pos", "inf"}
Overflowed(negative) == IF negative THEN {"ninf"} ELSE {"inf"}

\* x * y
MulClass(x, y) ==
  IF x = "nan" \/ y = "nan" THEN {"nan"}
  ELSE IF (x = "zero" /\ IsInfinite(y)) \/ (IsInfinite(x) /\ y = "zero") THEN {"nan"}
  ELSE IF x = "zero" \/ y = "zero" THEN {"zero"}
  ELSE IF IsInfinite(x) \/ IsInfinite(y) THEN Overflowed(IsNegative(x) # IsNegative(y))
  ELSE Rounded(IsNegative(x) # IsNegative(y))

\* x / y; the sign of a zero is not kept, so a division by zero may give
\* either infinity
DivClass(x, y) ==
  IF x = "nan" \/ y = "nan" THEN {"nan"}
  ELSE IF (x = "zero" /\ y = "zero") \/ (IsInfinite(x) /\ IsInfinite(y)) THEN {"nan"}
  ELSE IF IsInfinite(y) \/ x = "zero" THEN {"zero"}
  ELSE IF y = "zero" THEN {"inf", "ninf"}
  ELSE IF IsInfinite(x) THEN Overflowed(IsNegative(x) # IsNegative(y))
  ELSE Rounded(IsNegative(x) # IsNegative(y))

\* x + y
AddClass(x, y) ==
  IF x = "nan" \/ y = "nan" THEN {"nan"}
  ELSE IF IsInfinite(x) /\ IsInfinite(y) THEN (IF x = y THEN {x} ELSE {"nan"})
  ELSE IF IsInfinite(x) THEN {x}
  ELSE IF IsInfinite(y) THEN {y}
  ELSE IF x = "zero" THEN {y}
  ELSE IF y = "zero" THEN {x}
  ELSE IF x = "pos" /\ y = "pos" THEN {"pos", "inf"}
  ELSE IF x = "neg" /\ y = "neg" THEN {"neg", "ninf"}
  ELSE {"neg", "zero", "pos"}

\* Math.pow(x, k) for an integer k >= 0
PowClass(x, k) ==
  IF k = 0 THEN {"pos"}
  ELSE IF x = "nan" THEN {"nan"}
  ELSE IF x = "zero" THEN {"zero"}
  ELSE IF IsInfinite(x) THEN Overflowed(IsNegative(x) /\ k % 2 = 1)
  ELSE IF k = 1 THEN {x}
  ELSE Rounded(IsNegative(x) /\ k % 2 = 1)

\* the same operations on values known as one of several classes
Mulc(X, Y) == UNION { MulClass(x, y) : x \in X, y \in Y }
Divc(X, Y) == UNION { DivClass(x, y) : x \in X, y \in Y }
Addc(X, Y) == UNION { AddClass(x, y) : x \in X, y \in Y }

\* QueueingModel.factorial in doubles: 170! is the largest factorial below
\* Number.MAX_VALUE, and the products beyond it are Infinity
FactorialOverflow == 170

\* factorial with doubles of unbounded range
FactorialClass_Unbounded(n) == {"pos"}

FactorialClass(n) == IF n > FactorialOverflow THEN {"inf"} ELSE {"pos"}

RECURSIVE SummationLoop(_, _, _, _)
\* the loop of calculateProbabilityZero for an offered load of class a: the
\* classes of sum after the iterations n = from .. to - 1, entered with the
\* classes given (the iterations are run in two halves, one after the other)
SummationLoop(sum, a, from, to) ==
  IF to <= from THEN sum
  ELSE IF to = from + 1
  THEN Addc(sum, Divc(PowClass(a, from), FactorialClass(from)))
  ELSE LET half == (from + to) \div 2
       IN UNION { SummationLoop(first, a, half, to) :
                    first \in { SummationLoop(sum, a, from, half) } }

\* "let sum = 0" and the loop "for (let n = 0; n < this.servers; n++)",
\* for every class of offered load and every server count the search can
\* reach, computed once
SummationTable ==
  { << a, servers, SummationLoop({"zero"}, a, 0, servers) >> :
      a \in Classes, servers \in 1..(SearchCap + 1) }

SummationClasses(a, servers) ==
  (CHOOSE entry \in SummationTable : entry[1] = a /\ entry[2] = servers)[3]

\* new QueueingModel(arrivalRate, serviceRate, servers).calculateAverageTimeInQueue()
\* by classes
TimeInQueueClasses(arrivalRate, serviceRate, servers) ==
  LET a == ClassOf(Div(arrivalRate, serviceRate))
      rho == CalculateTrafficIntensity(arrivalRate, serviceRate, servers)
      oneMinusRho == ClassOf(Sub(OfInt(1), rho))
      power == PowClass(a, servers)
      sum == SummationClasses(a, servers)
      finalTerm == Mulc(Divc(power, FactorialClass(servers)),
                        DivClass("pos", oneMinusRho))
      probabilityZero == Divc({"pos"}, Addc(sum, finalTerm))
      numerator == Mulc(Mulc(power, {ClassOf(rho)}), probabilityZero)
      denominator == Mulc(FactorialClass(servers), PowClass(oneMinusRho, 2))
      averageQueueLength == Divc(numerator, denominator)
  IN Divc(averageQueueLength, {ClassOf(arrivalRate)})

\* "x <= targetWaitTime" and "x > targetWaitTime" for a double x of the
\* given class: le, gt, or nan when both comparisons are false
ClassRelation(x, targetWaitTime) ==
  IF x = "nan" THEN {"nan"}
  ELSE IF x = "inf" THEN {"gt"}
  ELSE IF x = "ninf" THEN {"le"}
  ELSE IF x = "zero" THEN (IF targetWaitTime.n < 0 THEN {"gt"} ELSE {"le"})
  ELSE IF x = "pos" THEN (IF targetWaitTime.n <= 0 THEN {"gt"} ELSE {"le", "gt"})
  ELSE (IF targetWaitTime.n >= 0 THEN {"le"} ELSE {"le", "gt"})

\* the same for the average time in queue of a model with the given server
\* count: exact up to ExactLimit servers, by classes beyond
WaitRelation(this, servers, targetWaitTime) ==
  IF servers <= ExactLimit
  THEN LET wait == CalculateAverageTimeInQueue(
                     QueueingModel(this.arrivalRate, this.serviceRate, servers))
       IN { IF Leq(wait, targetWaitTime) THEN "le"
            ELSE IF Gt(wait, targetWaitTime) THEN "gt" ELSE "nan" }
  ELSE UNION { ClassRelation(x, targetWaitTime) :
                 x \in TimeInQueueClasses(this.arrivalRate, this.serviceRate, servers) }

\* targets of the calls followed step by step; 0 asks for no wait at all
SearchTargets == TargetWaits \cup { OfInt(0) }
\* server counts of the models they start from
StartCounts == (1..MaxServers) \cup { FactorialOverflow, FactorialOverflow + 1 }

\* this.queueModel = new QueueingModel(...) with any of the starting counts,
\* while no call runs
NewModelToOptimize ==
  /\ optimizer = NoCall
  /\ \E arrivalRate \in ArrivalRates, serviceRate \in ServiceRates,
        servers \in StartCounts :
       queueModel' = ModelOf(arrivalRate, serviceRate, servers)
  /\ returned' = NoReturn
  /\ UNCHANGED << cafeVars, constructed, optimizer >>

\* optimizeServersForWaitTime(targetWaitTime) up to the choice of its loop
CallOptimizer ==
  /\ optimizer = NoCall
  /\ \E targetWaitTime \in SearchTargets :
       \E currentWait \in WaitRelation(queueModel, queueModel.servers, targetWaitTime) :
         optimizer' = [pc |-> IF currentWait = "le" THEN "reduce" ELSE "increase",
                       targetWaitTime |-> targetWaitTime,
                       servers |-> queueModel.servers,
                       currentWait |-> currentWait]
  /\ returned' = NoReturn
  /\ UNCHANGED << cafeVars, constructed, queueModel >>

\* "return servers"
Return ==
  /\ returned' = [target |-> optimizer.targetWaitTime, servers |-> optimizer.servers]
  /\ optimizer' = NoCall

\* one pass of "while (servers > 1)", or the return that follows the loop
ReduceStep ==
  /\ optimizer.pc = "reduce"
  /\ IF optimizer.servers > 1
     THEN \E testWait \in WaitRelation(queueModel, optimizer.servers - 1,
                                       optimizer.targetWaitTime) :
            IF testWait = "gt" THEN Return
            ELSE /\ optimizer' = [optimizer EXCEPT !.servers = @ - 1]
                 /\ UNCHANGED returned
     ELSE Return
  /\ UNCHANGED << cafeVars, constructed, queueModel >>

\* one pass of "while (currentWait > targetWaitTime)", or the return that
\* follows the loop
IncreaseStep ==
  /\ optimizer.pc = "increase"
  /\ IF optimizer.currentWait = "gt"
     THEN /\ optimizer.servers < SearchCap
          /\ \E testWait \in WaitRelation(queueModel, optimizer.servers + 1,
                                          optimizer.targetWaitTime) :
               optimizer' = [optimizer EXCEPT !.servers = @ + 1,
                                              !.currentWait = testWait]
          /\ UNCHANGED returned
     ELSE Return
  /\ UNCHANGED << cafeVars, constructed, queueModel >>

SearchNext == NewModelToOptimize \/ CallOptimizer \/ ReduceStep \/ IncreaseStep

\* a pass of the running call can be taken
PassEnabled ==
  \/ optimizer.pc = "reduce"
  \/ /\ optimizer.pc = "increase"
     /\ optimizer.currentWait = "gt" => optimizer.servers < SearchCap

\* a pass of the running call is taken
Pass == optimizer # NoCall /\ optimizer' # optimizer

\* a call that has started keeps running: weak fairness of its passes,
\* WF_vars(ReduceStep \/ IncreaseStep), written out
PassFairness == []<>(~PassEnabled) \/ []<><<Pass>>_vars

\* The optimizer followed pass by pass.
SearchSpec == Init /\ [][SearchNext]_vars /\ PassFairness

\* ------------------------------------------- the Customer constructor
\* new Customer(type, gameTime) with any key, outside spawnCustomer
NewCustomerCall ==
  /\ \E type \in CategoryKeys, r \in SpreadFactors, rs \in SpreadFactors,
        rt \in TipFactors, u \in SpecialDraws :
       constructed' = [type |-> type,
                       customer |-> Customer(type, gameTime, r, rs, rt, u)]
  /\ UNCHANGED << cafeVars, queueModel, returned, optimizer >>

CustomerNext == NewCustomerCall

CustomerSpec == Init /\ [][CustomerNext]_vars

TypeOK ==
  /\ gameTime \in StartTime..MaxTime
  /\ isPaused \in BOOLEAN
  /\ nextId \in 1..(MaxCustomers + 1)
  /\ \A t \in DOMAIN tables : tables[t].status \in {"empty", "waiting", "dirty", "cleaning"}

\* ------------------------------------------------------------ properties
Live(id) == InSeq(id, customers)
LiveNext(id) == InSeq(id, customers')
Queued(id) == InSeq(id, queue)
OccupiedTables == { t \in DOMAIN tables : tables[t].status = "waiting" }
SeatedCustomers == { id \in Ids : Live(id) /\ cust[id].table # -1 }
PlacedOrders == { id \in Ids : ord[id].status # "none" }

\* C1: FIFO seating.  Customers are numbered in arrival order; whenever a
\* customer b is given a seat, no customer that arrived before b is left
\* live and without a seat.
C1_FifoSeating ==
  [][\A b \in Ids :
       (cust[b].table = -1 /\ cust'[b].table # -1) =>
         \A a \in Ids : a < b => ~(LiveNext(a) /\ cust'[a].table = -1)]_vars

\* C2: at the end of every handler the number of live customers holding a
\* seat equals the number of occupied seats, and no customer is both in the
\* waiting queue and holding a seat.
C2_SeatedEqualsOccupied ==
  /\ Cardinality(SeatedCustomers) = Cardinality(OccupiedTables)
  /\ \A id \in Ids : Queued(id) => cust[id].table = -1

\* a customer has abandoned the seat it held, another one holds a seat and
\* a third one is live without a seat
C2_Witness ==
  /\ \E id \in Ids : emitted[id] = << "customer_left" >> /\ ord[id].status # "none"
  /\ SeatedCustomers # {}
  /\ \E id \in Ids : Live(id) /\ cust[id].table = -1

\* C3: seat and customer references agree: seat t references customer c
\* iff c is live and references t; hence no two live customers share a seat.
C3_SeatReferencesAgree ==
  /\ \A t \in DOMAIN tables :
       tables[t].customer # 0 =>
         Live(tables[t].customer) /\ cust[tables[t].customer].table = t
  /\ \A id \in Ids :
       (Live(id) /\ cust[id].table # -1) => tables[cust[id].table].customer = id
  /\ \A a, b \in Ids :
       (Live(a) /\ Live(b) /\ a # b /\ cust[a].table # -1) =>
         cust[a].table # cust[b].table

\* every seat is held, after an earlier holder has left one
C3_Witness ==
  /\ \A t \in DOMAIN tables : tables[t].customer # 0
  /\ \E id \in Ids : ~Live(id) /\ ord[id].status # "none"

\* C4: at the end of every tick every live customer that holds no seat is
\* in the waiting queue.
C4_UnseatedAreQueued ==
  \A id \in Ids : (Live(id) /\ cust[id].table = -1) => Queued(id)

\* The status changes one handler may make to a seat: the steps of the
\* cycle, and occupied -> dirty -> cleaning when the customer leaves and
\* seat matching picks the seat in the same tick.
SeatCycle ==
  { <<"empty", "waiting">>, <<"waiting", "dirty">>, <<"dirty", "cleaning">>,
    <<"waiting", "cleaning">>, <<"cleaning", "empty">> }

\* C5: a seat's status only moves along empty -> occupied -> dirty ->
\* cleaning -> empty; a seat is assigned only when it is empty, and a
\* cleaning seat becomes empty only once its cleaning delay is over.
C5_SeatCycle ==
  [][\A t \in DOMAIN tables :
       /\ tables'[t].status # tables[t].status =>
            << tables[t].status, tables'[t].status >> \in SeatCycle
       /\ tables'[t].status = "waiting" /\ tables[t].customer # tables'[t].customer =>
            tables[t].status = "empty"
       /\ (tables[t].status = "cleaning" /\ tables'[t].status = "empty") =>
            timers[t] = 0]_vars

\* the only seat is held again after an earlier holder left it
C5_Witness ==
  /\ DOMAIN tables = {0}
  /\ tables[0].status = "waiting"
  /\ \E id \in Ids : id # tables[0].customer /\ ord[id].status # "none"

\* C6: a queued customer abandons, with one customer_left event, at the
\* first tick at which the time since waitStartTime exceeds its patience,
\* at no earlier tick, and never changes or emits again afterwards.
C6_AbandonOnce ==
  [][\A id \in Ids :
       /\ (Queued(id) /\ gameTime' # gameTime) =>
            IF gameTime' - cust[id].waitStartTime > cust[id].patience
            THEN /\ cust'[id].state = "leaving"
                 /\ ~LiveNext(id)
                 /\ ~InSeq(id, queue')
                 /\ emitted'[id] = << "customer_left" >>
            ELSE /\ cust'[id].state # "leaving"
                 /\ emitted'[id] = << >>
       /\ cust[id].state = "leaving" =>
            cust'[id] = cust[id] /\ emitted'[id] = emitted[id]]_vars

\* customer 2 has abandoned while customer 1 held the only seat throughout
C6_Witness ==
  /\ DOMAIN tables = {0}
  /\ tables[0].customer = 1
  /\ emitted[2] = << "customer_left" >>
  /\ ord[2].status = "none"

\* C7: a preparing order with prepTime d started at t is served at the
\* first tick with currentTime - t >= d minutes and at no tick before.
C7_ServedWhenPrepared ==
  [][\A id \in Ids :
       (ord[id].status = "preparing" /\ gameTime' # gameTime) =>
         (ord'[id].status = "served" <=>
            gameTime' - ord[id].timeStarted >= ord[id].prepTime * MinuteUnits)]_vars

\* C8: the orders being prepared never exceed the server count.
C8_PreparingWithinCapacity ==
  Len(OrdersWithStatus(Cafe, "preparing")) <= availableServers

\* every server is busy and another order waits for one
C8_Witness ==
  /\ Len(OrdersWithStatus(Cafe, "preparing")) = availableServers
  /\ Len(OrdersWithStatus(Cafe, "pending")) > 0

\* C9: the satisfaction of every live customer is within [0, 100].
C9_SatisfactionInRange ==
  \A id \in Ids : Live(id) => cust[id].satisfaction \in 0..FullSatisfaction

\* a served customer whose satisfaction was lowered while waiting has been
\* raised to the cap while eating, next to one still losing satisfaction
C9_Witness ==
  /\ \E id \in Ids : Live(id) /\ cust[id].state \in {"eating", "paying"}
                     /\ cust[id].satisfaction = FullSatisfaction
  /\ \E id \in Ids : Live(id) /\ cust[id].state \in {"waiting", "waiting_for_order"}
                     /\ cust[id].satisfaction < FullSatisfaction

\* C10: no placed order is lost.  serveOrder serves an order only while
\* its customer is in this.customers, and a customer never returns to it:
\* an order can still reach served only if it is served already or its
\* customer is live.
C10_NoOrderLost ==
  \A id \in PlacedOrders : ord[id].status = "served" \/ Live(id)

\* C11: an order that becomes ready is served, and its customer moved to
\* eating, within the same tick: at the end of every handler no order has
\* status ready.
C11_NoReadyOrder ==
  \A id \in Ids : ord[id].status # "ready"

\* The M/M/c queue with offered load a = lambda / mu and c servers is stable
\* iff a < c.
Stable(arrivalRate, serviceRate, c) ==
  LET a == Div(arrivalRate, serviceRate)
  IN a.n < c * a.d

RECURSIVE ErlangSum(_, _)
\* sum of a^n / n! for n = 0 .. k
ErlangSum(a, k) ==
  IF k = 0 THEN OfInt(1)
  ELSE Add(ErlangSum(a, k - 1), Div(Pow(a, k), OfInt(factorial(k))))

\* Erlang-C closed forms (stable queue):
\*   P0 = 1 / (sum_{n<c} a^n/n! + a^c / ((c-1)! (c - a)))
\*   Lq = P0 a^(c+1) / ((c-1)! (c - a)^2),   Wq = Lq / lambda
ErlangP0(a, c) ==
  Div(OfInt(1),
      Add(ErlangSum(a, c - 1),
          Div(Pow(a, c), Mul(OfInt(factorial(c - 1)), Sub(OfInt(c), a)))))
ErlangLq(a, c) ==
  Div(Mul(ErlangP0(a, c), Pow(a, c + 1)),
      Mul(OfInt(factorial(c - 1)), Pow(Sub(OfInt(c), a), 2)))
ErlangWq(arrivalRate, serviceRate, c) ==
  Div(ErlangLq(Div(arrivalRate, serviceRate), c), arrivalRate)

\* |x - v| <= 0.01
Within(x, v) ==
  Leq(Sub(x, v), Num(1, 100)) /\ Leq(Sub(v, x), Num(1, 100))

\* the model of the example: lambda = 0.5, mu = 0.3, c = 2
ExampleModel == ModelOf(Num(5, 10), Num(3, 10), 2)

\* C12: a model whose traffic intensity is at least 1 reports the status
\* unstable and exposes neither an average queue length nor an average
\* time in queue.
C12_UnstableReported ==
  LET m == Constructed(queueModel)
  IN ~Stable(queueModel.arrivalRate, queueModel.serviceRate, queueModel.servers) =>
       /\ "status" \in DOMAIN m
       /\ m["status"] = "unstable"
       /\ "averageQueueLength" \notin DOMAIN m
       /\ "averageTimeInQueue" \notin DOMAIN m

\* C13: for a stable model the constructor's outputs are the Erlang-C
\* closed forms, and for lambda = 0.5, mu = 0.3, c = 2 they are rho = 5/6,
\* P0 = 1/11, Lq = 125/33 and Wq = 250/33, within 0.01 of 0.8333, 0.0909,
\* 3.79 and 7.57.
C13_ErlangClosedForms ==
  LET m == Constructed(queueModel)
      a == Div(m.arrivalRate, m.serviceRate)
  IN /\ Stable(m.arrivalRate, m.serviceRate, m.servers) =>
          /\ m.trafficIntensity = Div(a, OfInt(m.servers))
          /\ m.utilization = m.trafficIntensity
          /\ m.probabilityZero = ErlangP0(a, m.servers)
          /\ m.averageQueueLength = ErlangLq(a, m.servers)
          /\ m.averageTimeInQueue = ErlangWq(m.arrivalRate, m.serviceRate, m.servers)
          /\ CalculateAverageTimeInQueue(m) = m.averageTimeInQueue
     /\ queueModel = ExampleModel =>
          /\ m.trafficIntensity = Num(5, 6)
          /\ m.probabilityZero = Num(1, 11)
          /\ m.averageQueueLength = Num(125, 33)
          /\ m.averageTimeInQueue = Num(250, 33)
          /\ Within(m.trafficIntensity, Num(8333, 10000))
          /\ Within(m.probabilityZero, Num(909, 10000))
          /\ Within(m.averageQueueLength, Num(379, 100))
          /\ Within(m.averageTimeInQueue, Num(757, 100))

\* the example model has been constructed and the optimizer has run on it
C13_Witness ==
  /\ queueModel = ExampleModel
  /\ returned # NoReturn

\* the server counts up to SearchLimit with which the queue is stable and
\* its average wait is at most the target
SufficientCounts(m, target) ==
  { c \in 1..SearchLimit :
      /\ Stable(m.arrivalRate, m.serviceRate, c)
      /\ Leq(ErlangWq(m.arrivalRate, m.serviceRate, c), target) }

\* C14: whatever server count the model starts from, the optimizer returns
\* the smallest server count whose M/M/c queue has an average wait of at
\* most the target.
C14_MinimumSufficientServers ==
  (returned # NoReturn /\ SufficientCounts(queueModel, returned.target) # {}) =>
    /\ returned.servers \in SufficientCounts(queueModel, returned.target)
    /\ \A c \in SufficientCounts(queueModel, returned.target) : returned.servers <= c

\* the cafe's fields other than the queueing model
CoreOf(s) ==
  [customers |-> s.customers, queue |-> s.queue, orders |-> s.orders,
   cust |-> s.cust, ord |-> s.ord, tables |-> s.tables, timers |-> s.timers,
   nextId |-> s.nextId, emitted |-> s.emitted, playerStats |-> s.playerStats]

\* the cafe with another queueing model in place of its own
WithModel(m) == [Cafe EXCEPT !.queueModel = m]

\* a model whose fields and outputs all differ from those of the cafe's models
OtherModels == { ModelOf(Num(9, 10), Num(7, 10), 4) }

\* the models the cafe can hold: the constructor's, and those updateQueueModel
\* builds from a queue length, a tick time and the live capacity
CafeModels ==
  { InitialModel } \cup
  { ModelOf(Num(n * MinuteUnits, StartTime + i * MinuteUnits),
            Num(AvailableServers * 3, 10), AvailableServers) :
      n \in 0..MaxCustomers, i \in 0..MaxMinutes }

\* the optimizer leaves the model it runs on as it is, whichever of the
\* cafe's models that is and whatever the target
OptimizerLeavesModel ==
  \A m \in CafeModels, target \in TargetWaits :
    OptimizeServersForWaitTime(m, target).this = m

\* C15: the queueing model is advisory only.  The optimizer leaves the
\* model it runs on as it is; a recalibration replaces the model and
\* changes nothing else; the live capacity stays as constructed and the
\* model's server count is the live capacity from the first recalibration
\* on (and the constructor's before); and a tick or a spawn started with
\* another model in place leaves the same customers, queue, seats and
\* orders (for every tick length and every item drawn, the same draw for
\* all the customers seated in the tick).
C15_ModelIsAdvisory ==
  /\ queueModel \in CafeModels
  /\ OptimizerLeavesModel
  /\ CoreOf(UpdateQueueModel(Cafe, gameTime, availableServers)) = CoreOf(Cafe)
  /\ availableServers = AvailableServers
  /\ queueModel.servers = availableServers \/ queueModel = InitialModel
  /\ \A m \in OtherModels :
       /\ \A minutes \in TickMinutes, pick \in 1..3, quantity \in Quantities,
             tip \in TipPercents :
            LET gt == gameTime + minutes * MinuteUnits
                picks == [id \in Ids |-> pick]
            IN CoreOf(UpdateCafe(WithModel(m), gt, gt, availableServers, picks,
                                 quantity, tip))
                 = CoreOf(UpdateCafe(Cafe, gt, gt, availableServers, picks,
                                     quantity, tip))
       /\ \A type \in TypeIds, r \in PatienceFactors, rt \in TipMultiplierFactors :
            nextId <= MaxCustomers =>
              CoreOf(SpawnCustomer(WithModel(m), gameTime, availableServers, type, r, rt))
                = CoreOf(SpawnCustomer(Cafe, gameTime, availableServers, type, r, rt))

\* the model has been recalibrated for the live capacity while a customer
\* queues, a seat is held and an order is being prepared
C15_Witness ==
  /\ queueModel.servers = availableServers
  /\ queueModel.arrivalRate.n > 0
  /\ OccupiedTables # {}
  /\ Len(OrdersWithStatus(Cafe, "preparing")) > 0

\* C16: while the simulation is paused no customer's state or
\* satisfaction, no seat's status and no order's status changes, whatever
\* frames and timer callbacks run: in particular a cleaning seat does not
\* become empty and no customer abandons.
C16_FrozenWhilePaused ==
  [][(isPaused /\ isPaused') =>
       /\ \A id \in Ids :
            Live(id) => /\ cust'[id].state = cust[id].state
                        /\ cust'[id].satisfaction = cust[id].satisfaction
       /\ \A t \in DOMAIN tables : tables'[t].status = tables[t].status
       /\ \A id \in Ids : ord'[id].status = ord[id].status]_vars

\* the customer states, seat statuses and order statuses of a cafe
StatusOf(s) ==
  [cust |-> [id \in Ids |-> s.cust[id].state],
   tables |-> [t \in DOMAIN s.tables |-> s.tables[t].status],
   ord |-> [id \in Ids |-> s.ord[id].status]]

\* the cafe once the pending cleaning callback of seat t has run
AfterCleaning(t) ==
  [Cafe EXCEPT !.tables[t].status = "empty", !.timers[t] = NoTimer]

\* C17: the simulation is deterministic in simulated time.  Two runs with
\* the same ticks, spawns and draws up to now differ at most in the
\* wall-clock time that has passed: in one the cleaning callback of a seat
\* is still pending, in the other it has run.  The same next tick with the
\* same draws gives both runs the same customer states, seat statuses and
\* order statuses.
C17_SameTicksSameStates ==
  \A t \in DOMAIN timers :
    timers[t] # NoTimer =>
      \A minutes \in TickMinutes, pick \in 1..3, quantity \in Quantities,
         tip \in TipPercents :
        LET gt == gameTime + minutes * MinuteUnits
            picks == [id \in Ids |-> pick]
        IN StatusOf(UpdateCafe(AfterCleaning(t), gt, gt, availableServers, picks,
                               quantity, tip))
             = StatusOf(UpdateCafe(Cafe, gt, gt, availableServers, picks,
                                   quantity, tip))

\* The lifecycle state of a customer: Seated is the code's state 'waiting'
\* with a table, which seatCustomer sets and, the order generated, leaves
\* in the same call; Departed and Abandoned are the code's 'leaving',
\* told apart by the event emitted.
Stage(c, events) ==
  CASE c.state = "waiting" /\ c.table = -1 -> "Queued"
    [] c.state = "waiting" /\ c.table # -1 -> "Seated"
    [] c.state = "waiting_for_order" -> "AwaitingOrder"
    [] c.state = "eating" -> "Eating"
    [] c.state = "paying" -> "Paying"
    [] c.state = "leaving" /\ events = << "payment_received" >> -> "Departed"
    [] c.state = "leaving" /\ events = << "customer_left" >> -> "Abandoned"
    [] c.state = "none" -> "None"
    [] OTHER -> "Other"

\* the changes of stage one handler may make
LifecycleSteps ==
  { << "None", "Queued" >>, << "Queued", "Seated" >>, << "Seated", "AwaitingOrder" >>,
    << "Queued", "AwaitingOrder" >>, << "AwaitingOrder", "Eating" >>,
    << "Eating", "Paying" >>, << "Paying", "Departed" >>,
    << "Queued", "Abandoned" >>, << "AwaitingOrder", "Abandoned" >> }

\* C18: a customer's state changes only along Queued -> Seated ->
\* AwaitingOrder -> Eating -> Paying -> Departed, or from Queued or
\* AwaitingOrder to Abandoned.  A queued customer that a handler leaves in
\* AwaitingOrder has passed Seated in it: it holds a seat, its
\* waitStartTime was reset and its order is placed.  Departed and Abandoned
\* are never left.
C18_LifecycleOrder ==
  [][\A id \in Ids :
       LET before == Stage(cust[id], emitted[id])
           after == Stage(cust'[id], emitted'[id])
       IN /\ after # "Other"
          /\ before # after => << before, after >> \in LifecycleSteps
          /\ (before = "Queued" /\ after = "AwaitingOrder") =>
               /\ cust'[id].table # -1
               /\ tables'[cust'[id].table].customer = id
               /\ cust'[id].waitStartTime = gameTime'
               /\ ord'[id].status = "pending"
          /\ before \in {"Departed", "Abandoned"} =>
               cust'[id] = cust[id] /\ emitted'[id] = emitted[id]]_vars

\* one customer has departed after paying, one has abandoned while
\* awaiting its order and one has abandoned in the queue
C18_Witness ==
  /\ \E id \in Ids : Stage(cust[id], emitted[id]) = "Departed"
  /\ \E id \in Ids : Stage(cust[id], emitted[id]) = "Abandoned" /\ ord[id].status # "none"
  /\ \E id \in Ids : Stage(cust[id], emitted[id]) = "Abandoned" /\ ord[id].status = "none"

\* C19: a spawn adds exactly one new customer: it is last in the active
\* set and last in the waiting queue, Queued, with no seat, no order,
\* satisfaction 100 and waitStartTime the current simulated time; a call of
\* spawnCustomer leaves the customers there were, the queue before the new
\* customer, the seats and the orders as they are.
C19_SpawnAddsOne ==
  [][nextId' # nextId =>
       LET id == nextId
       IN /\ nextId' = nextId + 1
          /\ customers' # << >> /\ customers'[Len(customers')] = id
          /\ queue' # << >> /\ queue'[Len(queue')] = id
          /\ \A j \in Ids \ {id} : ~Live(j) => ~LiveNext(j)
          /\ Stage(cust'[id], emitted'[id]) = "Queued"
          /\ cust'[id].table = -1
          /\ ~cust'[id].hasOrder /\ ord'[id] = NoOrder /\ ~InSeq(id, orders')
          /\ cust'[id].satisfaction = FullSatisfaction
          /\ cust'[id].waitStartTime = gameTime'
          /\ gameTime' = gameTime =>
               /\ customers' = Append(customers, id)
               /\ queue' = Append(queue, id)
               /\ \A j \in Ids \ {id} : cust'[j] = cust[j]
               /\ tables' = tables /\ timers' = timers
               /\ ord' = ord /\ orders' = orders
               /\ emitted' = emitted]_vars

\* the customer spawned last joined the queue behind another one while a
\* seat was held and an order placed
C19_Witness ==
  /\ Len(queue) >= 2
  /\ queue[Len(queue)] = nextId - 1
  /\ cust[nextId - 1].waitStartTime = gameTime
  /\ gameTime > StartTime
  /\ OccupiedTables # {}
  /\ orders # << >>

C21_TickLeavesStats ==
  [][gameTime' # gameTime => playerStats' = playerStats]_vars

\* a live customer that holds a seat and has no order
SeatedWithoutOrder(c) == c.state = "waiting" /\ c.table # -1 /\ ~c.hasOrder

TerminalEvents == { "customer_left", "payment_received" }

\* C23: a customer emits at most one terminal event, customer_left or
\* payment_received; a spawned customer is in the active set exactly as
\* long as it has emitted none; once it has, it is in state leaving,
\* outside the active set and the waiting queue, and no seat refers to it.
C23_OneTerminalEvent ==
  \A id \in Ids :
    /\ Len(emitted[id]) <= 1
    /\ \A i \in DOMAIN emitted[id] : emitted[id][i] \in TerminalEvents
    /\ id >= nextId => (emitted[id] = << >> /\ ~Live(id))
    /\ id < nextId => (emitted[id] = << >> <=> Live(id))
    /\ emitted[id] # << >> =>
         /\ cust[id].state = "leaving"
         /\ ~Live(id) /\ ~Queued(id)
         /\ \A t \in DOMAIN tables : tables[t].customer # id

\* one customer has paid and left, another has abandoned and a third is
\* still in the cafe
C23_Witness ==
  \E a, b, c \in Ids :
    /\ emitted[a] = << "payment_received" >>
    /\ emitted[b] = << "customer_left" >>
    /\ Live(c)

\* the statuses findAvailableTable accepts, among the seats of the next state
AvailableNext == { t \in DOMAIN tables : Available(tables'[t].status) }

\* C24: a tick updates the customers, then processes the orders, then
\* matches seats, then recalibrates the model.  An order is not served in
\* the tick in which its customer abandons; an order placed in a tick is
\* still pending at its end; a seat whose customer leaves in a tick is
\* dirty or already cleaning at its end, and a seat is left empty or dirty
\* only if no customer that queued before the matching is still queued;
\* the model at the end of the tick is the one computed from the queue at
\* the end of the tick.
C24_TickOrder ==
  [][gameTime' # gameTime =>
       /\ \A id \in Ids :
            /\ (Live(id) /\ emitted'[id] = << "customer_left" >>) =>
                 (ord'[id].status = "served" => ord[id].status = "served")
            /\ (ord[id].status = "none" /\ ord'[id].status # "none") =>
                 /\ ord'[id].status = "pending"
                 /\ ord'[id].timePlaced = gameTime'
       /\ \A t \in DOMAIN tables :
            (tables[t].status = "waiting" /\ ~LiveNext(tables[t].customer)) =>
              tables'[t].status \in { "dirty", "cleaning" }
       /\ AvailableNext # {} =>
            \A i \in 1..Len(queue') : queue'[i] >= nextId
       /\ queueModel' = ModelOf(Num(Len(queue') * MinuteUnits, gameTime'),
                                Num(availableServers * 3, 10), availableServers)]_vars

\* a tick has just matched a queued customer to the seat a leaving customer
\* released, and the model stands for the customer still queued
C24_Witness ==
  /\ \E t \in DOMAIN tables : tables[t].status = "cleaning" /\ timers[t] = CleaningDelay
  /\ \E id \in Ids : emitted[id] # << >>
  /\ queue # << >>
  /\ cust[queue[1]].waitStartTime < gameTime
  /\ queueModel.arrivalRate = Num(Len(queue) * MinuteUnits, gameTime)

\* the table indices of the largest cafe drawn
TableIds == 0..1

C26_LeaveDirtiesOnlyItsSeat ==
  [][gameTime' # gameTime =>
       \A t \in DOMAIN tables :
         LET id == tables[t].customer
         IN IF id # 0
            THEN IF emitted'[id] # emitted[id]
                 THEN /\ tables'[t].customer = 0
                      /\ \/ tables'[t].status = "dirty"
                         \/ /\ tables'[t].status = "cleaning"
                            /\ timers'[t] = CleaningDelay
                 ELSE tables'[t] = tables[t]
            ELSE \/ tables'[t] = tables[t]
                 \/ /\ tables[t].status = "empty"
                    /\ tables'[t].status = "waiting"
                    /\ tables'[t].customer # 0
                 \/ /\ tables[t].status = "dirty"
                    /\ tables'[t] = [tables[t] EXCEPT !.status = "cleaning"]]_vars

\* one customer has paid and left its table dirty while the customer at
\* the other table is still seated
C26_Witness ==
  \E id \in Ids, t \in DOMAIN tables, t2 \in DOMAIN tables :
    /\ emitted[id] = << "payment_received" >>
    /\ tables[t] = [status |-> "dirty", customer |-> 0]
    /\ tables[t2].customer # 0

\* C27: every order of this.orders that is pending or preparing, that is,
\* waits for or occupies a preparation slot, is the order of a customer
\* that is still in this.customers.
C27_SlotOrderHasCustomer ==
  \A i \in 1..Len(orders) :
    ord[orders[i]].status \in {"pending", "preparing"} => InSeq(orders[i], customers)

\* the orders that are pending before a step and no longer pending after it
Promoted ==
  { id \in Ids : InSeq(id, orders) /\ ord[id].status = "pending"
                                   /\ ord'[id].status # "pending" }

\* C28: a tick promotes exactly min(availableServers - preparing, pending)
\* orders, counted as the tick finds them; it promotes the pending orders
\* that were placed first (no order is promoted while one placed before it,
\* or standing before it in this.orders, stays pending), and a promoted
\* order is preparing with timeStarted set to the tick's time.
C28_PromotionFIFO ==
  [][gameTime' # gameTime =>
       LET pendingOrders == OrdersWithStatus(Cafe, "pending")
           preparingOrders == OrdersWithStatus(Cafe, "preparing")
       IN /\ Cardinality(Promoted) =
               Min(availableServers - Len(preparingOrders), Len(pendingOrders))
          /\ \A i \in 1..Len(pendingOrders), j \in 1..Len(pendingOrders) :
               (pendingOrders[j] \in Promoted /\
                  (i < j \/ ord[pendingOrders[i]].timePlaced
                              < ord[pendingOrders[j]].timePlaced))
                 => pendingOrders[i] \in Promoted
          /\ \A id \in Promoted : /\ ord'[id].status = "preparing"
                                   /\ ord'[id].timeStarted = gameTime']_vars

\* the server has just taken the order that stands first in this.orders
\* while the order placed after it, pending since before this tick, still
\* waits
C28_Witness ==
  \E i \in 1..Len(orders), j \in 1..Len(orders) :
    /\ i < j
    /\ ord[orders[i]].status = "preparing" /\ ord[orders[i]].timeStarted = gameTime
    /\ ord[orders[j]].status = "pending" /\ ord[orders[j]].timePlaced < gameTime
    /\ ord[orders[i]].timePlaced <= ord[orders[j]].timePlaced

\* C29: the status of an order only moves forward: from no order to
\* pending when it is placed, pending to preparing, preparing to ready (and
\* on to served within the same call when its customer is found), ready to
\* served; no step moves it backwards or past preparing, and a served
\* order stays served.
C29_StatusForward ==
  [][\A id \in Ids :
       LET before == ord[id].status
           after == ord'[id].status
       IN \/ after = before
          \/ before = "none" /\ after = "pending"
          \/ before = "pending" /\ after = "preparing"
          \/ before = "preparing" /\ after \in {"ready", "served"}
          \/ before = "ready" /\ after = "served"]_vars

\* an order has gone through every status: placed, started at a later tick
\* and served at a still later one
C29_Witness ==
  \E id \in Ids :
    /\ ord[id].status = "served"
    /\ ord[id].timePlaced < ord[id].timeStarted
    /\ ord[id].timeStarted < ord[id].timeCompleted

\* C30: the waiting queue is in arrival order at every moment: customers
\* are numbered as they are spawned, and of any two customers in the queue
\* the one that arrived first stands first, so the relative order of two
\* queued customers never changes; this.queue is a dense array, so a
\* removal leaves no gap.
C30_QueueInArrivalOrder ==
  \A i \in 1..Len(queue), j \in 1..Len(queue) : i < j => queue[i] < queue[j]

\* of three customers queued in arrival order the first has been seated
\* and the second has abandoned from the queue; the third is still queued
C30_Witness ==
  /\ queue = << 3 >>
  /\ ord[1].status # "none"
  /\ emitted[2] = << "customer_left" >>
  /\ ord[2].status = "none"

\* the customers whose update returns payment_received in a step
Paid ==
  { id \in Ids : /\ emitted'[id] # emitted[id]
                 /\ emitted'[id][Len(emitted'[id])] = "payment_received" }

RECURSIVE PaymentSum(_, _)
\* amount + tip over the customers of ids, the amount being the order's
\* totalPrice in dollars and u the draw of calculateTip
PaymentSum(ids, u) ==
  IF ids = {} THEN OfInt(0)
  ELSE LET id == CHOOSE x \in ids : TRUE
       IN Add(Add(Num(ord[id].totalPrice, 100), CalculateTip(cust[id], ord[id], u)),
              PaymentSum(ids \ {id}, u))

C32_PatienceFromSeating ==
  [][\A id \in Ids :
       (Live(id) /\ cust[id].state = "waiting_for_order" /\ gameTime' # gameTime) =>
         /\ cust[id].waitStartTime = ord[id].timePlaced
         /\ emitted'[id] # emitted[id] <=>
              gameTime' - ord[id].timePlaced > cust[id].patience
         /\ emitted'[id] # emitted[id] => emitted'[id] = << "customer_left" >>]_vars

\* a customer that queued before it was seated still awaits its order
\* although more than its patience has passed since it arrived
C32_Witness ==
  \E id \in Ids :
    /\ Live(id) /\ cust[id].state = "waiting_for_order"
    /\ ord[id].timePlaced > SpawnDeadline
    /\ gameTime - SpawnDeadline > cust[id].patience

\* C33: as long as no difficulty has been selected, simulated time stands
\* at the start of the day, whatever buttons are pressed: no frame updates
\* the systems.
C33_PausedUntilDifficulty ==
  gameTime = StartTime

\* C34: every customer in the waiting queue is in this.customers, is in
\* state 'waiting', holds no seat and has no order, and stands in the queue
\* once.
C34_QueuedAreWaiting ==
  \A i \in 1..Len(queue) :
    LET id == queue[i]
    IN /\ Live(id)
       /\ cust[id].state = "waiting"
       /\ cust[id].table = -1
       /\ ~cust[id].hasOrder /\ ord[id].status = "none"
       /\ \A j \in 1..Len(queue) : queue[j] = id => j = i

\* two customers queue while a third one holds the only seat, after a tick
C34_Witness ==
  /\ Len(queue) = 2
  /\ SeatedCustomers # {}
  /\ gameTime > StartTime

\* C35: whatever ticks, spawns and callbacks interleave, a cleaning
\* callback is pending for a seat only while the seat is cleaning (so it
\* fires on a cleaning seat), a callback is armed for a seat only when none
\* is pending for it, and a seat that a customer holds is occupied and does
\* not become empty in a step in which the customer keeps it.
C35_CleaningCallback ==
  [][\A t \in DOMAIN tables :
       /\ timers[t] # NoTimer => tables[t].status = "cleaning"
       /\ timers'[t] # NoTimer => tables'[t].status = "cleaning"
       /\ timers'[t] > timers[t] => timers[t] = NoTimer
       /\ (tables[t].status = "cleaning" /\ tables'[t].status = "empty") =>
            timers[t] = 0 /\ timers'[t] = NoTimer
       /\ tables'[t].customer # 0 => tables'[t].status = "waiting"
       /\ tables[t].status = "waiting" => tables'[t].status # "empty"]_vars

\* the callback of one seat is due while a customer holds the other seat
C35_Witness ==
  /\ \E t \in DOMAIN tables : timers[t] = 0 /\ tables[t].status = "cleaning"
  /\ \E t \in DOMAIN tables : tables[t].status = "waiting" /\ tables[t].customer # 0

\* C36: a live customer has an order exactly when it awaits its order,
\* eats or pays, and then it holds a seat; a customer is given a seat only
\* if it never had one (it has no order yet and leaves the state 'waiting'
\* without a seat), and an order, once generated, is never replaced.
C36_OrderIffServedStates ==
  [][\A id \in Ids :
       /\ Live(id) =>
            /\ cust[id].hasOrder <=>
                 cust[id].state \in {"waiting_for_order", "eating", "paying"}
            /\ cust[id].hasOrder <=> ord[id].status # "none"
            /\ cust[id].hasOrder => /\ cust[id].table # -1
                                    /\ tables[cust[id].table].customer = id
       /\ (cust[id].table = -1 /\ cust'[id].table # -1) =>
            /\ Stage(cust[id], emitted[id]) = "Queued"
            /\ ord[id].status = "none"
            /\ ord'[id].status = "pending"
       /\ ord[id].status # "none" =>
            /\ ord'[id].status # "none"
            /\ ord'[id].totalPrice = ord[id].totalPrice
            /\ ord'[id].prepTime = ord[id].prepTime
            /\ ord'[id].timePlaced = ord[id].timePlaced
       /\ Len(SelectSeq(orders', LAMBDA x : x = id)) <= 1]_vars

\* one customer awaits its order and another one eats, each at its seat
C36_Witness ==
  /\ \E id \in Ids : Live(id) /\ cust[id].state = "waiting_for_order"
                     /\ cust[id].table # -1
  /\ \E id \in Ids : Live(id) /\ cust[id].state = "eating" /\ cust[id].table # -1

\* C37: once the game runs and frames keep advancing simulated time, every
\* customer in this.customers is removed from it later on (it has departed
\* or abandoned), whatever the contention for seats and servers.
C37_EveryCustomerLeaves ==
  \A id \in Ids : Live(id) ~> (~Live(id) \/ isPaused)

\* late in the day every customer that was spawned is gone: one has paid,
\* one has abandoned
C37_Witness ==
  /\ gameTime > MaxTime
  /\ nextId > MaxCustomers
  /\ customers = << >>
  /\ \E id \in Ids : emitted[id] = << "payment_received" >>
  /\ \E id \in Ids : emitted[id] = << "customer_left" >>

\* C38: the server count optimizeServersForWaitTime returns gives a stable
\* queue: the arrival rate is below that count times the service rate,
\* whatever model (arrival rate > 0, service rate > 0, at least one server)
\* and whatever target the call is made with.
C38_ReturnedCountStable ==
  (returned # NoReturn /\ returned.servers >= 1) =>
    Stable(queueModel.arrivalRate, queueModel.serviceRate, returned.servers)

\* C39: every call of optimizeServersForWaitTime returns, whatever the
\* model it runs on (arrival rate > 0, service rate > 0, at least one
\* server) and whatever the target (0 or more).
C39_OptimizerTerminates ==
  (optimizer # NoCall) ~> (optimizer = NoCall /\ returned # NoReturn)

\* a search for no wait at all that started from one server has returned,
\* at the first count whose factorial is no finite double
C39_Witness ==
  /\ optimizer = NoCall
  /\ queueModel.servers = 1
  /\ returned.target = OfInt(0)
  /\ returned.servers = FactorialOverflow + 1

\* C40: the model that a spawn or a tick has recalibrated either has a
\* traffic intensity below 1 and an average queue length and an average
\* time in queue that are numbers, not negative, or carries the status
\* unstable; this also with an empty waiting queue (arrival rate 0) and
\* with an arrival rate that reaches the total service rate.
C40_RecalibratedModelSound ==
  queueModel # InitialModel =>
    LET m == Constructed(queueModel)
    IN \/ /\ Stable(m.arrivalRate, m.serviceRate, m.servers)
          /\ IsFinite(m.averageQueueLength)
          /\ Leq(OfInt(0), m.averageQueueLength)
          /\ IsFinite(m.averageTimeInQueue)
          /\ Leq(OfInt(0), m.averageTimeInQueue)
       \/ /\ "status" \in DOMAIN m
          /\ m["status"] = "unstable"

====
